---- MODULE Spec2Model ----
(***************************************************************************)
(* Model of bin/process_inbox.py: the inbox sorter of secondBrain.          *)
(*                                                                         *)
(* Text is a sequence of one-character strings, so that strip(), lower(),  *)
(* title(), startswith() and the kinship regular expression are computed   *)
(* rather than assumed.  Values that Python types dynamically (JSON values,*)
(* SQL column values) are records [t, v] whose tag t is tested before v.   *)
(* Numbers are in hundredths (0.60 is 60).                                 *)
(***************************************************************************)
EXTENDS Integers, Sequences, FiniteSets, TLC

(* ------------------------------ bounds --------------------------------- *)
\* number of inbox rows present in the store
NumItems == 2
\* number of runs of main() that are explored
MaxPasses == 2
\* largest batch limit given on the command line
MaxLimit == 2

(* ------------------------- program constants --------------------------- *)
MODEL == <<"p", "h", "i", "4", "-", "m", "i", "n", "i", ":", "l", "a", "t", "e", "s", "t">>
CONF_THRESHOLD == 60
MAX_RETRIES == 2
DETAILS_MAX == 2000

(* ------------------------------ values --------------------------------- *)
Str(s) == [t |-> "str", v |-> s]
Num(n) == [t |-> "num", v |-> n]
NaN == [t |-> "nan", v |-> 0]
None == [t |-> "none", v |-> 0]
List(l) == [t |-> "list", v |-> l]
Dict(d) == [t |-> "dict", v |-> d]
EmptyDict == Dict(<<>>)

\* Python truth value of a value (used by `not x`, `x or y`, `if x`)
Truthy(x) ==
    CASE x.t = "str" -> x.v # <<>>
      [] x.t = "num" -> x.v # 0
      [] x.t = "nan" -> TRUE
      [] x.t = "none" -> FALSE
      [] x.t = "list" -> x.v # <<>>
      [] x.t = "dict" -> DOMAIN x.v # {}

\* Python `a or b`
PyOr(a, b) == IF Truthy(a) THEN a ELSE b

\* dict.get(key, default)
Get(d, key, default) == IF key \in DOMAIN d.v THEN d.v[key] ELSE default

(* ------------------------------- text ---------------------------------- *)
Uppers == <<"A", "B", "C", "D", "E", "F", "G", "H", "I", "J", "K", "L", "M", "N", "O", "P", "Q", "R", "S", "T", "U", "V", "W", "X", "Y", "Z">>
Lowers == <<"a", "b", "c", "d", "e", "f", "g", "h", "i", "j", "k", "l", "m", "n", "o", "p", "q", "r", "s", "t", "u", "v", "w", "x", "y", "z">>
Digits == <<"0", "1", "2", "3", "4", "5", "6", "7", "8", "9">>
Whitespace == {" ", "\t", "\n"}

InSeq(c, s) == \E i \in 1..Len(s) : s[i] = c
IndexOf(c, s) == CHOOSE i \in 1..Len(s) : s[i] = c

LowerCh(c) == IF InSeq(c, Uppers) THEN Lowers[IndexOf(c, Uppers)] ELSE c
UpperCh(c) == IF InSeq(c, Lowers) THEN Uppers[IndexOf(c, Lowers)] ELSE c
IsLetter(c) == InSeq(c, Uppers) \/ InSeq(c, Lowers)
\* \w of the regular expressions
IsWordCh(c) == IsLetter(c) \/ InSeq(c, Digits) \/ c = "_"

\* str.lower()
lower(s) == [i \in 1..Len(s) |-> LowerCh(s[i])]

\* str.title(): a letter after a non-letter is upper-cased, the others lower-cased
title(s) ==
    [i \in 1..Len(s) |->
        IF i = 1 \/ ~IsLetter(s[i - 1]) THEN UpperCh(s[i]) ELSE LowerCh(s[i])]

\* str.strip()
strip(s) ==
    LET keep == {i \in 1..Len(s) : s[i] \notin Whitespace}
    IN  IF keep = {} THEN <<>>
        ELSE LET lo == CHOOSE i \in keep : \A j \in keep : i <= j
                 hi == CHOOSE i \in keep : \A j \in keep : j <= i
             IN  SubSeq(s, lo, hi)

\* str.startswith(pfx)
startswith(s, pfx) == Len(s) >= Len(pfx) /\ SubSeq(s, 1, Len(pfx)) = pfx

\* s[:n]
Truncate(s, n) == IF Len(s) <= n THEN s ELSE SubSeq(s, 1, n)

(* --------------------------- alias table ------------------------------- *)
\* The alias file as read from disk: absent (or unreadable), or a JSON
\* mapping given as a sequence of <<key, value>> pairs (keys as written).
NoFile == [kind |-> "missing", data |-> <<>>]
MapFile(pairs) == [kind |-> "mapping", data |-> pairs]

\* load_aliases: lower-cased keys; any failure gives the empty mapping
load_aliases(file) ==
    IF file.kind # "mapping" THEN <<>>
    ELSE LET keys == {lower(file.data[i][1]) : i \in 1..Len(file.data)}
             last(k) == CHOOSE i \in 1..Len(file.data) :
                           /\ lower(file.data[i][1]) = k
                           /\ \A j \in 1..Len(file.data) :
                                 lower(file.data[j][1]) = k => j <= i
         IN  [k \in keys |-> file.data[last(k)][2]]

KinTerms == << <<"m", "o", "m">>, <<"m", "o", "t", "h", "e", "r">>, <<"d", "a", "d">>, <<"f", "a", "t", "h", "e", "r">> >>

\* \b(term)\b matches s at position i
KinMatchAt(s, i, term) ==
    /\ i + Len(term) - 1 <= Len(s)
    /\ SubSeq(s, i, i + Len(term) - 1) = term
    /\ (i = 1 \/ ~IsWordCh(s[i - 1]))
    /\ (i + Len(term) - 1 = Len(s) \/ ~IsWordCh(s[i + Len(term)]))

\* infer_person_name, with the alias table it reads as a parameter
infer_person_name(aliases, raw) ==
    LET s == lower(strip(raw))
        hits == {i \in 1..Len(s) : \E k \in 1..Len(KinTerms) : KinMatchAt(s, i, KinTerms[k])}
    IN  IF hits = {} THEN Str(<<>>)
        ELSE LET i == CHOOSE h \in hits : \A g \in hits : h <= g
                 k == CHOOSE a \in 1..Len(KinTerms) :
                         /\ KinMatchAt(s, i, KinTerms[a])
                         /\ \A b \in 1..Len(KinTerms) : KinMatchAt(s, i, KinTerms[b]) => a <= b
                 key == KinTerms[k]
             IN  IF key \in DOMAIN aliases THEN aliases[key] ELSE Str(title(key))

(* ----------------------------- pre_route ------------------------------- *)
CatAdmin == <<"a", "d", "m", "i", "n">>
CatProjects == <<"p", "r", "o", "j", "e", "c", "t", "s">>
CatIdeas == <<"i", "d", "e", "a", "s">>
CatPeople == <<"p", "e", "o", "p", "l", "e">>
Unknown == <<"u", "n", "k", "n", "o", "w", "n">>
ValidCategories == {CatPeople, CatProjects, CatIdeas, CatAdmin}

\* the (prefix, category) pairs in the order pre_route tests them
Prefixes ==
    << << <<"a", "d", "m", "i", "n", ":">>, CatAdmin >>,
       << <<"p", "r", "o", "j", "e", "c", "t", ":">>, CatProjects >>,
       << <<"p", "r", "o", "j", "e", "c", "t", "s", ":">>, CatProjects >>,
       << <<"i", "d", "e", "a", ":">>, CatIdeas >>,
       << <<"i", "d", "e", "a", "s", ":">>, CatIdeas >>,
       << <<"p", "e", "r", "s", "o", "n", ":">>, CatPeople >>,
       << <<"p", "e", "o", "p", "l", "e", ":">>, CatPeople >> >>

strip_prefix(s, pfx) == strip(SubSeq(s, Len(pfx) + 1, Len(s)))

\* pre_route: [cat, clean], cat = None when no prefix matches
pre_route(raw) ==
    LET s == strip(raw)
        low == lower(s)
        hits == {k \in 1..Len(Prefixes) : startswith(low, Prefixes[k][1])}
    IN  IF hits = {} THEN [cat |-> None, clean |-> None]
        ELSE LET k == CHOOSE h \in hits : \A g \in hits : h <= g
             IN  [cat |-> Str(Prefixes[k][2]), clean |-> Str(strip_prefix(s, Prefixes[k][1]))]

(* --------------------------- extract_json ------------------------------ *)
\* Classifier output is a sequence of lexemes: whitespace, prose words,
\* the brackets, number literals, the literal null, and object members
\* ("key": value, the value already a JSON value).
Ws == [lx |-> "ws"]
Word == [lx |-> "word"]
LBrace == [lx |-> "{"]
RBrace == [lx |-> "}"]
LBracket == [lx |-> "["]
RBracket == [lx |-> "]"]
NullLit == [lx |-> "null"]
NumLit(n) == [lx |-> "num", v |-> n]
Member(k, val) == [lx |-> "member", k |-> k, v |-> val]

\* str.strip() on lexemes
strip_lx(s) ==
    LET keep == {i \in 1..Len(s) : s[i].lx # "ws"}
    IN  IF keep = {} THEN <<>>
        ELSE LET lo == CHOOSE i \in keep : \A j \in keep : i <= j
                 hi == CHOOSE i \in keep : \A j \in keep : j <= i
             IN  SubSeq(s, lo, hi)

IsWsLx(x) == x.lx = "ws"
NotWsLx(x) == ~IsWsLx(x)

\* json.loads: [ok, val]; ok = FALSE stands for the exception it raises.
\* A later member with the same key replaces an earlier one.
json_loads(text) ==
    LET s == SelectSeq(text, NotWsLx)
        n == Len(s)
        fail == [ok |-> FALSE, val |-> None]
    IN  CASE n = 1 /\ s[1].lx = "num" -> [ok |-> TRUE, val |-> Num(s[1].v)]
          [] n = 1 /\ s[1].lx = "null" -> [ok |-> TRUE, val |-> None]
          [] n = 2 /\ s[1].lx = "[" /\ s[2].lx = "]" -> [ok |-> TRUE, val |-> List(<<>>)]
          [] n >= 2 /\ s[1].lx = "{" /\ s[n].lx = "}"
                /\ \A i \in 2..(n - 1) : s[i].lx = "member" ->
                LET keys == {s[i].k : i \in 2..(n - 1)}
                    last(k) == CHOOSE i \in 2..(n - 1) :
                                  s[i].k = k /\ \A j \in 2..(n - 1) : s[j].k = k => j <= i
                IN  [ok |-> TRUE, val |-> Dict([k \in keys |-> s[last(k)].v])]
          [] OTHER -> fail

\* extract_json: the whole text, else the span from the first { to the last }
extract_json(text) ==
    LET s == strip_lx(text)
        whole == json_loads(s)
        opens == {i \in 1..Len(s) : s[i].lx = "{"}
        closes == {i \in 1..Len(s) : s[i].lx = "}"}
    IN  IF whole.ok THEN whole.val
        ELSE IF opens = {} \/ closes = {} THEN None
        ELSE LET lo == CHOOSE i \in opens : \A j \in opens : i <= j
                 hi == CHOOSE i \in closes : \A j \in closes : j <= i
             IN  IF hi < lo THEN None
                 ELSE LET blob == json_loads(SubSeq(s, lo, hi))
                      IN  IF blob.ok THEN blob.val ELSE None

(* ---------------------------- ollama_call ------------------------------ *)
OllamaFailed == <<"o", "l", "l", "a", "m", "a", " ", "f", "a", "i", "l", "e", "d", ":", " ">>

\* ollama_call on a finished process p = [returncode, stdout, stderr]:
\* [raised, out, err]; raised stands for the RuntimeError
ollama_call(p) ==
    IF p.returncode # 0
    THEN [raised |-> TRUE, out |-> <<>>, err |-> OllamaFailed \o strip(p.stderr)]
    ELSE [raised |-> FALSE, out |-> strip_lx(p.stdout), err |-> <<>>]

\* f"invalid json (attempt {attempt})"
InvalidJson(attempt) == <<"i", "n", "v", "a", "l", "i", "d", " ", "j", "s", "o", "n", " ", "(", "a", "t", "t", "e", "m", "p", "t", " ">> \o <<Digits[attempt + 1]>> \o <<")">>

(* ------------------------------ float() -------------------------------- *)
IsDigits(s) == s # <<>> /\ \A i \in 1..Len(s) : InSeq(s[i], Digits)
DigitVal(c) == IndexOf(c, Digits) - 1
RECURSIVE IntOf(_)
IntOf(s) == IF s = <<>> THEN 0 ELSE 10 * IntOf(SubSeq(s, 1, Len(s) - 1)) + DigitVal(s[Len(s)])

\* float() of a string, in hundredths: digits, optionally "." and one or two
\* digits; "nan"; anything else raises ValueError
float_str(text) ==
    LET s == strip(text)
        dots == {i \in 1..Len(s) : s[i] = "."}
        bad == [ok |-> FALSE, val |-> None]
    IN  IF lower(s) = <<"n", "a", "n">> THEN [ok |-> TRUE, val |-> NaN]
        ELSE IF dots = {} THEN
            IF IsDigits(s) THEN [ok |-> TRUE, val |-> Num(100 * IntOf(s))] ELSE bad
        ELSE LET d == CHOOSE i \in dots : TRUE
                 ip == SubSeq(s, 1, d - 1)
                 fp == SubSeq(s, d + 1, Len(s))
             IN  IF Cardinality(dots) = 1 /\ IsDigits(ip) /\ IsDigits(fp) /\ Len(fp) <= 2
                 THEN [ok |-> TRUE,
                       val |-> Num(100 * IntOf(ip)
                                   + (IF Len(fp) = 1 THEN 10 * IntOf(fp) ELSE IntOf(fp)))]
                 ELSE bad

\* float(x): [ok, val]; ok = FALSE stands for ValueError / TypeError
float(x) ==
    CASE x.t = "num" -> [ok |-> TRUE, val |-> x]
      [] x.t = "nan" -> [ok |-> TRUE, val |-> NaN]
      [] x.t = "str" -> float_str(x.v)
      [] OTHER -> [ok |-> FALSE, val |-> None]

\* a < b on floats; every comparison with nan is False
FloatLess(a, n) == a.t = "num" /\ a.v < n

(* ------------------------------ inputs --------------------------------- *)
\* raw texts an inbox row may hold
RawTexts ==
    { <<"A", "d", "m", "i", "n", ":", " ", " ", "t", "a", "x", " ">>,
      <<"p", "r", "o", "j", "e", "c", "t", ":", "p">>,
      <<"p", "r", "o", "j", "e", "c", "t", "s", ":", " ", "p", " ", "q">>,
      <<"i", "d", "e", "a", ":", "i">>,
      <<"I", "D", "E", "A", "S", ":", " ", "i">>,
      <<"p", "e", "r", "s", "o", "n", ":", " ", "M", "o", "m", " ">>,
      << " " >> \o <<"p", "e", "o", "p", "l", "e", ":", " ", "b", "o", "b", " ">>,
      <<"a", "d", "m", "i", "n", ":">>,
      <<"p", "e", "o", "p", "l", "e", ":", " ">> \o << "\t" >>,
      <<"c", "a", "l", "l", " ", "m", "o", "m">>,
      <<"b", "u", "y", " ", "m", "i", "l", "k">> }

\* contents of the alias file
AliasFiles ==
    { NoFile,
      MapFile(<< << <<"M", "o", "m">>, Str(<<"J", "a", "n", "e", " ", "D", "o", "e">>) >> >>),
      MapFile(<< << <<"m", "o", "m">>, Str(<< " " >>) >> >>),
      MapFile(<< << <<"m", "o", "m">>, Str(<<>>) >> >>) }

Obj(members) == <<LBrace>> \o members \o <<RBrace>>
Cat(c) == Member("category", Str(c))
Conf(n) == Member("confidence", Num(n))
Fields(f) == Member("fields", Dict(f))
Exit0(out) == [returncode |-> 0, stdout |-> out, stderr |-> <<>>]
Exit1(err) == [returncode |-> 1, stdout |-> <<>>, stderr |-> err]

\* finished runs of the classifier process that main() may observe
Runs ==
    << Exit1(<<" ", "o", "o", "m", " ">>),
       Exit0(<<Word, Word>>),
       Exit0(<<LBracket, RBracket>>),
       Exit0(<<LBrace, RBrace>>),
       Exit0(Obj(<<Cat(CatAdmin)>>) \o <<Word>> \o Obj(<<Cat(CatAdmin)>>)),
       Exit0(Obj(<<Cat(CatPeople), Conf(90),
                   Fields([name |-> Str(<<" ", "A", "l", " ">>), context |-> Str(<<"c">>)])>>)),
       Exit0(Obj(<<Cat(CatPeople), Conf(80)>>)),
       Exit0(<<Word, Ws>> \o Obj(<<Cat(CatProjects), Conf(90),
                   Fields([name |-> Str(<<"M", "i", "g", "r", "a", "t", "e", " ", "D", "B">>)])>>) \o <<Ws, Word>>),
       Exit0(Obj(<<Cat(CatProjects), Member("confidence", Str(<<"0", ".", "9">>)),
                   Fields([name |-> Str(<<"n">>), status |-> Str(<<"p", "a", "u", "s", "e", "d">>)])>>)),
       Exit0(Obj(<<Cat(CatIdeas), Conf(60), Fields(<<>>), Member("title", Str(<<"T">>))>>)),
       Exit0(Obj(<<Cat(CatIdeas), Conf(100),
                   Fields([title |-> Str(<< " " >>)]), Member("title", Str(<<"T">>))>>)),
       Exit0(Obj(<<Cat(CatAdmin), Conf(70),
                   Fields([task |-> Str(<<"t">>), status |-> Str(<<"d", "o", "n", "e">>)])>>)),
       Exit0(Obj(<<Cat(CatAdmin), Conf(70), Fields([due_date |-> Str(<<"d">>)])>>)),
       Exit0(Obj(<<Cat(CatAdmin), Conf(40), Fields([task |-> Str(<<"t">>)])>>)),
       Exit0(Obj(<<Cat(Unknown), Conf(90)>>)),
       Exit0(Obj(<<Member("title", Str(<<"T">>))>>)),
       Exit0(Obj(<<Cat(Unknown), Member("confidence", Str(<<"h", "i", "g", "h">>))>>)),
       Exit0(Obj(<<Cat(CatAdmin), Member("confidence", NaN),
                   Fields([task |-> Str(<<"t">>)])>>)),
       Exit0(Obj(<<Cat(CatProjects), Conf(90), Member("fields", Str(<<"n">>))>>)),
       Exit0(Obj(<<Cat(CatProjects), Conf(90), Fields([name |-> Num(500)])>>)),
       Exit0(Obj(<<Cat(CatPeople), Conf(90),
                   Fields([name |-> Str(<<"A", "l">>), context |-> List(<<>>)])>>)),
       Exit0(Obj(<<Cat(CatProjects), Conf(90),
                   Fields([name |-> Str(<<"n">>), status |-> Str(<<"w", "a", "i", "t", "i", "n", "g">>)])>>)),
       Exit0(Obj(<<Cat(CatAdmin), Conf(100), Fields([task |-> Str(<<"t">>)])>>)),
       Exit0(Obj(<<Cat(CatAdmin), Conf(70),
                   Fields([task |-> Str(<<"t">>), status |-> Num(500)])>>)) >>

\* batch limits given to main(): int(sys.argv[1]) lets a negative one through
Limits == (-1)..MaxLimit

(* ------------------------------- store --------------------------------- *)
\* sqlite3 parameter binding: str, int/float and None are bound, a float
\* nan is stored as NULL, a list or a dict raises
Bindable(x) == x.t \in {"str", "num", "nan", "none"}
Bind(x) == IF x.t = "nan" THEN None ELSE x

\* mutant: the INSERT is lost
insert_lost(db, table, row, src) == db

\* INSERT INTO <table>; src (the inbox row the record was made for) is not a
\* column of the table: it is recorded here to state the claims
insert(db, table, row, src) == [db EXCEPT ![table] = Append(@, row @@ [src |-> src])]

\* UPDATE inbox SET <cols> WHERE id=?
update_inbox(db, id, cols) == [db EXCEPT !.inbox[id] = cols @@ @]

\* mutant: the event overwrites the log instead of being appended
log_event_overwrite(db, event, inbox_id, details) ==
    [db EXCEPT !.log_events =
        <<[event |-> event, inbox_id |-> inbox_id,
           details |-> [details EXCEPT !.v = Truncate(@, DETAILS_MAX)]]>>]

\* log_event
log_event(db, event, inbox_id, details) ==
    [db EXCEPT !.log_events =
        Append(@, [event |-> event, inbox_id |-> inbox_id,
                   details |-> [details EXCEPT !.v = Truncate(@, DETAILS_MAX)]])]

Unprocessed == "unprocessed"
Processed == "processed"
NeedsReview == "needs_review"
PrefixTag == <<"p", "r", "e", "f", "i", "x">>
Active == <<"a", "c", "t", "i", "v", "e">>
Open == <<"o", "p", "e", "n">>
ProjectStatuses == {Active, <<"w", "a", "i", "t", "i", "n", "g">>, <<"b", "l", "o", "c", "k", "e", "d">>, <<"s", "o", "m", "e", "d", "a", "y">>, <<"d", "o", "n", "e">>}
AdminStatuses == {Open, <<"d", "o", "n", "e">>}

\* json.dumps of a parsed object, as lexemes
KeyOrder == <<"category", "confidence", "fields", "title">>
json_dumps(obj) ==
    LET InObj(k) == k \in DOMAIN obj.v
        keys == SelectSeq(KeyOrder, InObj)
    IN  [t |-> "json",
         v |-> <<LBrace>> \o [i \in 1..Len(keys) |-> Member(keys[i], obj.v[keys[i]])]
                    \o <<RBrace>>]

\* the outcome of the rest of one loop iteration: the store as committed, or
\* raised = TRUE when an exception leaves main() (nothing of the iteration
\* is committed)
Committed(db) == [raised |-> FALSE, db |-> db]
Raised(db) == [raised |-> TRUE, db |-> db]

\* UPDATE inbox SET status='needs_review', category, confidence, model, error;
\* log_event; commit
needs_review(db, id, cat, conf, model, err, details) ==
    Committed(log_event(
        update_inbox(db, id, [status |-> NeedsReview, category |-> Bind(cat),
                              confidence |-> Bind(conf), model |-> Str(model),
                              error |-> Str(err)]),
        NeedsReview, id, details))

\* UPDATE inbox SET status='processed', ..., error=''; log_event; commit
processed(db, id, cat, conf, model, details) ==
    Committed(log_event(
        update_inbox(db, id, [status |-> Processed, category |-> Bind(cat),
                              confidence |-> Bind(conf), model |-> Str(model),
                              error |-> Str(<<>>)]),
        Processed, id, details))

\* an INSERT whose parameters all bind, then the rest; else the exception
insert_then(db, table, row, src, rest(_)) ==
    IF \A c \in DOMAIN row : Bindable(row[c])
    THEN rest(insert(db, table, [c \in DOMAIN row |-> Bind(row[c])], src))
    ELSE Raised(db)

(* --------------------------- prefix stage ------------------------------ *)
EmptyAfterPrefix == <<"e", "m", "p", "t", "y", " ", "a", "f", "t", "e", "r", " ", "p", "r", "e", "f", "i", "x">>
MissingPersonName == <<"m", "i", "s", "s", "i", "n", "g", " ", "p", "e", "r", "s", "o", "n", " ", "n", "a", "m", "e">>
MissingProjectName == <<"m", "i", "s", "s", "i", "n", "g", " ", "p", "r", "o", "j", "e", "c", "t", " ", "n", "a", "m", "e">>
MissingIdeaTitle == <<"m", "i", "s", "s", "i", "n", "g", " ", "i", "d", "e", "a", " ", "t", "i", "t", "l", "e">>
MissingAdminTask == <<"m", "i", "s", "s", "i", "n", "g", " ", "a", "d", "m", "i", "n", " ", "t", "a", "s", "k">>

\* mutant: the alias table and the kinship terms are not consulted
prefix_person_name_plain(aliases, clean) == Str(strip(clean))

\* the name of the people branch of the prefix stage
prefix_person_name(aliases, clean) ==
    LET name == strip(clean)
    IN  IF lower(name) \in DOMAIN aliases THEN aliases[lower(name)]
        ELSE IF InSeq(lower(name), KinTerms)
             THEN PyOr(infer_person_name(aliases, name), Str(title(name)))
             ELSE Str(name)

\* mutant: the remainder is stored as follow-up
prefix_follow_up_clean(raw, clean) == clean

\* the follow_up of the people branch of the prefix stage: the original raw
prefix_follow_up(raw, clean) == Str(raw)

\* main, the prefix stage once the remainder is known to be non-empty:
\* the insert of the category, the status update, the log event, the commit
route_prefix_insert(db, aliases, id, raw, cat, clean) ==
    LET done(d) == processed(d, id, cat, Num(100), PrefixTag,
                             Str(<<"p", "r", "e", "f", "i", "x", "_", "r", "o", "u", "t", "e", " ", "-", ">", " ">> \o cat.v))
    IN  CASE cat.v = CatAdmin ->
                insert_then(db, "admin",
                    [task |-> clean, due_date |-> Str(<<>>), status |-> Str(Open)],
                    id, done)
          [] cat.v = CatProjects ->
                insert_then(db, "projects",
                    [name |-> clean, status |-> Str(Active),
                     next_action |-> Str(<<>>), notes |-> Str(<<>>)],
                    id, done)
          [] cat.v = CatIdeas ->
                insert_then(db, "ideas",
                    [title |-> clean, one_liner |-> Str(<<>>), notes |-> Str(<<>>)],
                    id, done)
          [] cat.v = CatPeople ->
                LET name == prefix_person_name(aliases, clean.v)
                IN  IF ~Truthy(name)
                    THEN needs_review(db, id, Str(CatPeople), Num(100), PrefixTag,
                                      MissingPersonName,
                                      Str(MissingPersonName \o <<" ", "(", "p", "r", "e", "f", "i", "x", ")">>))
                    ELSE insert_then(db, "people",
                            [name |-> name, context |-> Str(<<>>),
                             follow_up |-> prefix_follow_up(raw, clean),
                             last_contact |-> Str(<<>>)],
                            id, done)

\* mutant: the empty remainder is not bounced
route_prefix_unchecked(db, aliases, id, raw, cat, clean) ==
    route_prefix_insert(db, aliases, id, raw, cat, clean)

\* main, the branch taken when pre_route returns a category
route_prefix(db, aliases, id, raw, cat, clean) ==
    IF ~Truthy(clean)
    THEN needs_review(db, id, cat, Num(100), PrefixTag, EmptyAfterPrefix,
                      Str(<<"p", "r", "e", "f", "i", "x", " ">> \o cat.v
                          \o <<" ", "b", "u", "t", " ", "e", "m", "p", "t", "y">>))
    ELSE route_prefix_insert(db, aliases, id, raw, cat, clean)

(* -------------------------- fallback stage ----------------------------- *)
\* (x or "").strip(): raises AttributeError when x is truthy and no string
or_strip(x, default) ==
    LET y == PyOr(x, Str(default))
    IN  IF y.t = "str" THEN [ok |-> TRUE, val |-> Str(strip(y.v))]
        ELSE [ok |-> FALSE, val |-> None]

IsValidCategory(category) == category.t = "str" /\ category.v \in ValidCategories

\* main, total failure of the retry loop
total_failure(db, id, last_err) ==
    Committed(log_event(
        update_inbox(db, id, [status |-> NeedsReview, error |-> Str(last_err),
                              model |-> Str(MODEL)]),
        NeedsReview, id, Str(last_err)))

\* main, field extraction of one category
route_people(db, aliases, id, raw, result, confidence, fields) ==
    LET got == or_strip(Get(fields, "name", None), <<>>)
        name == IF Truthy(got.val) THEN got.val ELSE infer_person_name(aliases, raw)
        done(d) == processed(d, id, Str(CatPeople), confidence, MODEL, json_dumps(result))
    IN  IF ~got.ok THEN Raised(db)
        ELSE IF ~Truthy(name)
        THEN needs_review(db, id, Str(CatPeople), confidence, MODEL,
                          MissingPersonName, Str(MissingPersonName))
        ELSE insert_then(db, "people",
                [name |-> name,
                 context |-> Get(fields, "context", Str(<<>>)),
                 follow_up |-> Get(fields, "follow_up", Str(<<>>)),
                 last_contact |-> Get(fields, "last_contact", Str(<<>>))],
                id, done)

route_projects(db, id, result, confidence, fields) ==
    LET name == or_strip(Get(fields, "name", None), <<>>)
        st == or_strip(Get(fields, "status", None), Active)
        status == IF st.val.v \in ProjectStatuses THEN st.val ELSE Str(Active)
        done(d) == processed(d, id, Str(CatProjects), confidence, MODEL, json_dumps(result))
    IN  IF ~name.ok THEN Raised(db)
        ELSE IF ~Truthy(name.val)
        THEN needs_review(db, id, Str(CatProjects), confidence, MODEL,
                          MissingProjectName, Str(MissingProjectName))
        ELSE IF ~st.ok THEN Raised(db)
        ELSE insert_then(db, "projects",
                [name |-> name.val, status |-> status,
                 next_action |-> Get(fields, "next_action", Str(<<>>)),
                 notes |-> Get(fields, "notes", Str(<<>>))],
                id, done)

route_ideas(db, id, result, confidence, fields) ==
    LET title_ == or_strip(PyOr(Get(fields, "title", None), Get(result, "title", None)), <<>>)
        done(d) == processed(d, id, Str(CatIdeas), confidence, MODEL, json_dumps(result))
    IN  IF ~title_.ok THEN Raised(db)
        ELSE IF ~Truthy(title_.val)
        THEN needs_review(db, id, Str(CatIdeas), confidence, MODEL,
                          MissingIdeaTitle, Str(MissingIdeaTitle))
        ELSE insert_then(db, "ideas",
                [title |-> title_.val,
                 one_liner |-> Get(fields, "one_liner", Str(<<>>)),
                 notes |-> Get(fields, "notes", Str(<<>>))],
                id, done)

route_admin(db, id, result, confidence, fields) ==
    LET task == or_strip(Get(fields, "task", None), <<>>)
        st == or_strip(Get(fields, "status", None), Open)
        status == IF st.val.v \in AdminStatuses THEN st.val ELSE Str(Open)
        done(d) == processed(d, id, Str(CatAdmin), confidence, MODEL, json_dumps(result))
    IN  IF ~task.ok THEN Raised(db)
        ELSE IF ~Truthy(task.val)
        THEN needs_review(db, id, Str(CatAdmin), confidence, MODEL,
                          MissingAdminTask, Str(MissingAdminTask))
        ELSE IF ~st.ok THEN Raised(db)
        ELSE insert_then(db, "admin",
                [task |-> task.val,
                 due_date |-> Get(fields, "due_date", Str(<<>>)),
                 status |-> status],
                id, done)

\* main, from the validation of a parsed object to the commit
route_fallback(db, aliases, id, raw, result) ==
    LET category == Get(result, "category", Str(Unknown))
        fl == float(PyOr(Get(result, "confidence", Num(0)), Num(0)))
        fields == PyOr(Get(result, "fields", EmptyDict), EmptyDict)
        confidence == fl.val
    IN  IF ~fl.ok THEN Raised(db)
        ELSE IF ~IsValidCategory(category) \/ FloatLess(confidence, CONF_THRESHOLD)
        THEN needs_review(db, id,
                          IF ~IsValidCategory(category) THEN Str(Unknown) ELSE category,
                          confidence, MODEL, <<>>, json_dumps(result))
        ELSE IF fields.t # "dict" THEN Raised(db)
        ELSE CASE category.v = CatPeople ->
                    route_people(db, aliases, id, raw, result, confidence, fields)
               [] category.v = CatProjects -> route_projects(db, id, result, confidence, fields)
               [] category.v = CatIdeas -> route_ideas(db, id, result, confidence, fields)
               [] category.v = CatAdmin -> route_admin(db, id, result, confidence, fields)

(* ------------------------------- state --------------------------------- *)
VARIABLES
    db,         \* the committed database: inbox, people, projects, ideas, admin, log_events
    aliasFile,  \* the alias file on disk
    pc,         \* "idle": no run of main(); "loop": at the head of the for loop;
                \* "retry": inside the retry loop of the current row;
                \* "call": inside ollama_call, the classifier process running
    limit,      \* main's argument
    rows,       \* the rows main() selected, as [id, raw_text]
    idx,        \* position in rows of the row being handled
    attempt,    \* number of classifier attempts made in the retry loop
    result,     \* result of the last retry loop: the parsed object, None while there is none
    last_err,   \* last_err of the retry loop
    tried,      \* history: the failure of each attempt of the retry loop, while all failed
    exit,       \* history: how the last run of main() ended ("none" while it runs)
    passes,     \* history: number of runs of main() started
    calls,      \* history: per inbox id, the classifier processes started by this run
    running,    \* number of classifier processes started and not yet finished
    parsed      \* history: `parsed` of the attempt the last step made, None otherwise

vars == <<db, aliasFile, pc, limit, rows, idx, attempt, result, last_err, tried, exit,
          passes, calls, running, parsed>>

Ids == 1..NumItems

\* the pure functions on the inputs above, tabulated once
AliasTables == [f \in AliasFiles |-> load_aliases(f)]
PreRouted == [t \in RawTexts |-> pre_route(t)]
Observed ==
    [r \in 1..Len(Runs) |->
        LET call == ollama_call(Runs[r])
        IN  [call |-> call, parsed |-> extract_json(call.out)]]

\* the module-level ALIASES of the run
ALIASES == AliasTables[aliasFile]

NewItem(raw) ==
    [raw_text |-> raw, status |-> Unprocessed, category |-> None,
     confidence |-> None, model |-> None, error |-> None]

NoCalls == [i \in Ids |-> 0]

\* the store holds NumItems unprocessed rows with raw texts of `texts`, the
\* alias file is one of `files`, and no run of main() has been started
InitWith(texts, files) ==
    /\ \E raw \in [Ids -> texts] :
          db = [inbox |-> [i \in Ids |-> NewItem(raw[i])],
                people |-> <<>>, projects |-> <<>>, ideas |-> <<>>, admin |-> <<>>,
                log_events |-> <<>>]
    /\ aliasFile \in files
    /\ pc = "idle"
    /\ limit = 0
    /\ rows = <<>>
    /\ idx = 0
    /\ attempt = 0
    /\ result = None
    /\ last_err = <<>>
    /\ tried = <<>>
    /\ exit = "none"
    /\ passes = 0
    /\ calls = NoCalls
    /\ running = 0
    /\ parsed = None

Init == InitWith(RawTexts, AliasFiles)

\* mutant: the WHERE status='unprocessed' is missing
select_any_status(d, lim) ==
    LET ids == DOMAIN d.inbox
        n == IF lim < 0 \/ lim > Cardinality(ids) THEN Cardinality(ids) ELSE lim
    IN  [k \in 1..n |-> [id |-> k, raw_text |-> d.inbox[k].raw_text]]

\* SELECT id, raw_text FROM inbox WHERE status='unprocessed' ORDER BY id ASC LIMIT ?
\* (a negative LIMIT is no limit in SQLite)
select_unprocessed(d, lim) ==
    LET ids == {i \in DOMAIN d.inbox : d.inbox[i].status = Unprocessed}
        rank(i) == Cardinality({j \in ids : j <= i})
        n == IF lim < 0 \/ lim > Cardinality(ids) THEN Cardinality(ids) ELSE lim
        nth(k) == CHOOSE i \in ids : rank(i) = k
    IN  [k \in 1..n |-> [id |-> nth(k), raw_text |-> d.inbox[nth(k)].raw_text]]

InLoop == pc \in {"loop", "retry", "call"} /\ idx <= Len(rows)
Row == rows[idx]
Route == PreRouted[Row.raw_text]

\* the retry loop's variables at the attempt about to be made: result = None,
\* last_err = "" and attempt 0 when the loop is entered
Made == IF pc \in {"retry", "call"} THEN attempt ELSE 0
LastErr == IF pc \in {"retry", "call"} THEN last_err ELSE <<>>
Tried == IF pc \in {"retry", "call"} THEN tried ELSE <<>>

\* mutant: last_err is set by the first failure only
keep_first_err(old, err) == IF old = <<>> THEN err ELSE old

\* last_err = ... of a failed attempt
set_last_err(old, err) == err

\* one pass of the retry loop's body on the finished classifier run p:
\* the parsed object if the attempt succeeds, else the failure
attempt_body(p, n) ==
    LET call == p.call
        got == p.parsed
    IN  IF call.raised THEN [ok |-> FALSE, parsed |-> None, err |-> call.err]
        ELSE IF Truthy(got) /\ got.t = "dict"
        THEN [ok |-> TRUE, parsed |-> got, err |-> <<>>]
        ELSE [ok |-> FALSE, parsed |-> None, err |-> InvalidJson(n)]

\* `parsed` after the attempt on the classifier run p: extract_json is not
\* reached when ollama_call raises
parsed_of(p) == IF p.call.raised THEN None ELSE p.parsed

\* the end of one loop iteration: commit and go on to the next row, or the
\* exception that ends the process (its open transaction is never committed)
Finish(outcome) ==
    /\ db' = outcome.db
    /\ IF outcome.raised
       THEN pc' = "idle" /\ exit' = "exception" /\ idx' = idx
       ELSE pc' = "loop" /\ exit' = exit /\ idx' = idx + 1
    /\ UNCHANGED <<aliasFile, limit, rows, calls>>

\* main(lim) up to the for loop, in a new process
Select(lim) ==
    /\ pc = "idle"
    /\ limit' = lim
    /\ rows' = select_unprocessed(db, lim)
    /\ idx' = 1
    /\ IF rows' = <<>>
       THEN pc' = "idle" /\ exit' = "ok"
       ELSE pc' = "loop" /\ exit' = "none"
    /\ attempt' = 0
    /\ result' = None
    /\ last_err' = <<>>
    /\ tried' = <<>>
    /\ calls' = NoCalls
    /\ running' = 0
    /\ parsed' = None
    /\ UNCHANGED <<db, aliasFile>>

\* a run of main() with any of the limits
Start ==
    /\ passes < MaxPasses
    /\ passes' = passes + 1
    /\ \E lim \in Limits : Select(lim)

\* one loop iteration that the prefix pre-router decides
PrefixItem ==
    /\ pc = "loop"
    /\ idx <= Len(rows)
    /\ Truthy(Route.cat)
    /\ Finish(route_prefix(db, ALIASES, Row.id, Row.raw_text, Route.cat, Route.clean))
    /\ parsed' = None
    /\ UNCHANGED <<attempt, result, last_err, tried, passes, running>>

\* mutant: the retry loop is entered whatever pre_route returned
falls_through_always(route) == TRUE

\* `if cat: ... continue`: the fallback is reached only without a category
falls_through(route) == ~Truthy(route.cat)

\* for attempt in range(MAX_RETRIES + 1): subprocess.run starts the classifier
Invoke ==
    /\ pc \in {"loop", "retry"}
    /\ idx <= Len(rows)
    /\ falls_through(Route)
    /\ Made < MAX_RETRIES + 1
    /\ pc' = "call"
    /\ attempt' = Made
    /\ last_err' = LastErr
    /\ tried' = Tried
    /\ result' = None
    /\ calls' = [calls EXCEPT ![Row.id] = @ + 1]
    /\ running' = running + 1
    /\ parsed' = None
    /\ UNCHANGED <<db, aliasFile, limit, rows, idx, exit, passes>>

\* an attempt of the retry loop that fails and is not the last
AttemptFailsOn(runs) ==
    /\ pc = "call"
    /\ ~Truthy(Route.cat)
    /\ Made < MAX_RETRIES
    /\ \E r \in runs :
          LET a == attempt_body(Observed[r], Made)
          IN  /\ ~a.ok
              /\ last_err' = set_last_err(LastErr, a.err)
              /\ tried' = Append(Tried, a.err)
              /\ parsed' = parsed_of(Observed[r])
    /\ attempt' = Made + 1
    /\ result' = None
    /\ pc' = "retry"
    /\ running' = running - 1
    /\ UNCHANGED <<db, aliasFile, limit, rows, idx, exit, passes, calls>>

\* the last attempt of the retry loop fails: total failure of the classifier
AttemptExhaustsOn(runs) ==
    /\ pc = "call"
    /\ ~Truthy(Route.cat)
    /\ Made = MAX_RETRIES
    /\ \E r \in runs :
          LET a == attempt_body(Observed[r], Made)
          IN  /\ ~a.ok
              /\ last_err' = set_last_err(LastErr, a.err)
              /\ tried' = Append(Tried, a.err)
              /\ parsed' = parsed_of(Observed[r])
              /\ Finish(total_failure(db, Row.id, last_err'))
    /\ attempt' = Made + 1
    /\ result' = None
    /\ running' = running - 1
    /\ UNCHANGED passes

\* an attempt of the retry loop succeeds: validation, field extraction,
\* insert, status update and commit.  After the break attempt and last_err
\* are dead (lines 241 and 243 assign them before they are read again): they
\* are cleared here, with their history.
AttemptParsesOn(runs) ==
    /\ pc = "call"
    /\ ~Truthy(Route.cat)
    /\ Made <= MAX_RETRIES
    /\ \E r \in runs :
          LET a == attempt_body(Observed[r], Made)
          IN  /\ a.ok
              /\ result' = a.parsed
              /\ parsed' = parsed_of(Observed[r])
              /\ Finish(route_fallback(db, ALIASES, Row.id, Row.raw_text, a.parsed))
    /\ attempt' = 0
    /\ last_err' = <<>>
    /\ tried' = <<>>
    /\ running' = running - 1
    /\ UNCHANGED passes

\* the attempts on any finished run of the classifier
AllRuns == 1..Len(Runs)
AttemptFails == AttemptFailsOn(AllRuns)
AttemptExhausts == AttemptExhaustsOn(AllRuns)
AttemptParses == AttemptParsesOn(AllRuns)

\* return 0 after the last row
Return ==
    /\ pc = "loop"
    /\ idx > Len(rows)
    /\ pc' = "idle"
    /\ exit' = "ok"
    /\ parsed' = None
    /\ UNCHANGED <<db, aliasFile, limit, rows, idx, attempt, result, last_err, tried,
                   passes, calls, running>>

Next ==
    Start \/ PrefixItem \/ Invoke \/ AttemptFails \/ AttemptExhausts \/ AttemptParses \/ Return

Spec == Init /\ [][Next]_vars

(* ------------------------ vocabulary of the claims --------------------- *)
Tables == {"people", "projects", "ideas", "admin"}
\* the required field of each table
RequiredField(table) ==
    CASE table = "people" -> "name"
      [] table = "projects" -> "name"
      [] table = "ideas" -> "title"
      [] table = "admin" -> "task"
\* the table of a category
TableOf(cat) ==
    CASE cat = CatPeople -> "people"
      [] cat = CatProjects -> "projects"
      [] cat = CatIdeas -> "ideas"
      [] cat = CatAdmin -> "admin"

Status(d, id) == d.inbox[id].status
Terminal(d, id) == Status(d, id) \in {Processed, NeedsReview}
\* positions in a table of the records made for an inbox row
RecordsOf(d, table, id) == {k \in 1..Len(d[table]) : d[table][k].src = id}
NumRecordsOf(d, id) ==
    Cardinality(RecordsOf(d, "people", id)) + Cardinality(RecordsOf(d, "projects", id))
    + Cardinality(RecordsOf(d, "ideas", id)) + Cardinality(RecordsOf(d, "admin", id))
\* positions in the log of the events of an inbox row
EventsOf(d, id) == {k \in 1..Len(d.log_events) : d.log_events[k].inbox_id = id}

(* -------------------------------- C1 ----------------------------------- *)
\* C1: no people/projects/ideas/admin record exists whose required field
\* (name / name / title / task) is empty after trimming; an item whose
\* required field resolved to empty has no record and is needs_review.
C1_RequiredFieldNonEmpty ==
    \A table \in Tables : \A k \in 1..Len(db[table]) :
        LET f == db[table][k][RequiredField(table)]
        IN  f.t = "str" /\ strip(f.v) # <<>>

(* -------------------------------- C2 ----------------------------------- *)
\* the committed store agrees on one row: processed = exactly one record, in
\* the table of the stored category; otherwise no record
C2_RowConsistent(d, id) ==
    IF Status(d, id) = Processed
    THEN /\ NumRecordsOf(d, id) = 1
         /\ d.inbox[id].category.t = "str"
         /\ d.inbox[id].category.v \in ValidCategories
         /\ Cardinality(RecordsOf(d, TableOf(d.inbox[id].category.v), id)) = 1
    ELSE NumRecordsOf(d, id) = 0

\* in one step the status of a row, its log and its records change together
C2_Together(id) ==
    LET statusChanged == Status(db', id) # Status(db, id)
        logged == Cardinality(EventsOf(db', id)) # Cardinality(EventsOf(db, id))
        recorded == NumRecordsOf(db', id) # NumRecordsOf(db, id)
    IN  /\ statusChanged <=> logged
        /\ recorded => statusChanged

\* C2: in every committed state a processed item has exactly one category
\* record, in the table of its stored category, and a needs_review or
\* unprocessed item has none; record, log entry and status update of an item
\* appear in the same commit.
C2_RecordIffProcessed ==
    /\ [](\A id \in Ids : C2_RowConsistent(db, id))
    /\ [][\A id \in Ids : C2_Together(id)]_vars

\* an item processed with its record beside an item in needs_review without
C2_Witness ==
    \E i, j \in Ids :
        /\ Status(db, i) = Processed /\ NumRecordsOf(db, i) = 1
        /\ Status(db, j) = NeedsReview /\ NumRecordsOf(db, j) = 0

(* ----------------------------- C3 and C4 ------------------------------- *)
\* the recognized prefixes a raw text itself starts with (at most one), and
\* what follows the prefix, trimmed; tabulated over the raw texts
PrefixTable ==
    [t \in RawTexts |-> {k \in 1..Len(Prefixes) : startswith(lower(t), Prefixes[k][1])}]
RemainderTable ==
    [t \in RawTexts |->
        [k \in PrefixTable[t] |-> strip(SubSeq(t, Len(Prefixes[k][1]) + 1, Len(t)))]]
PrefixOf(raw) == PrefixTable[raw]
Remainder(raw, k) == RemainderTable[raw][k]
\* the row was handled by the current (or last) run of main()
Handled(id) == \E j \in 1..Len(rows) : j < idx /\ rows[j].id = id
\* a pass has dealt with the row
Passed(id) == Handled(id) \/ Terminal(db, id)
Raw(id) == db.inbox[id].raw_text

\* processed by the prefix router into category cat, one record whose
\* required field is `field`
C3_ProcessedAs(id, cat, field) ==
    /\ Status(db, id) = Processed
    /\ db.inbox[id].category = Str(cat)
    /\ db.inbox[id].confidence = Num(100)
    /\ db.inbox[id].model = Str(PrefixTag)
    /\ NumRecordsOf(db, id) = 1
    /\ \E r \in RecordsOf(db, TableOf(cat), id) :
          db[TableOf(cat)][r][RequiredField(TableOf(cat))] = field

\* C3 as stated: a prefix followed by non-empty content gives a processed
\* item, category of the prefix, confidence 1.0, model "prefix", and exactly
\* one record whose required field is the trimmed remainder.
C3_PrefixRemainderIsField ==
    \A id \in Ids : \A k \in PrefixOf(Raw(id)) :
        (Remainder(Raw(id), k) # <<>> /\ Passed(id))
            => C3_ProcessedAs(id, Prefixes[k][2], Str(Remainder(Raw(id), k)))

\* the name the people branch stores for a remainder, per alias file
C3_NameTable ==
    [f \in AliasFiles |->
        [t \in RawTexts |->
            [k \in PrefixTable[t] |->
                LET rem == RemainderTable[t][k]
                IN  IF lower(rem) \in DOMAIN AliasTables[f] THEN AliasTables[f][lower(rem)]
                    ELSE IF InSeq(lower(rem), KinTerms) THEN Str(title(rem))
                    ELSE Str(rem)]]]
C3_PersonName(id, k) == C3_NameTable[aliasFile][Raw(id)][k]

\* C3 amended: as C3 for admin, projects and ideas; a people item gets as
\* name the alias value of the remainder, else the title-cased kinship term,
\* else the remainder, and is needs_review without record when that is empty.
C3_PrefixProcessed ==
    \A id \in Ids : \A k \in PrefixOf(Raw(id)) :
        LET rem == Remainder(Raw(id), k)
            cat == Prefixes[k][2]
        IN  (rem # <<>> /\ Passed(id)) =>
                IF cat # CatPeople THEN C3_ProcessedAs(id, cat, Str(rem))
                ELSE IF C3_PersonName(id, k) = Str(<<>>)
                THEN /\ Status(db, id) = NeedsReview
                     /\ db.inbox[id].category = Str(CatPeople)
                     /\ db.inbox[id].error = Str(MissingPersonName)
                     /\ NumRecordsOf(db, id) = 0
                ELSE C3_ProcessedAs(id, cat, C3_PersonName(id, k))

\* a people-prefixed item processed under the name its alias gives, beside a
\* processed item of another category
C3_Witness ==
    \E i, j \in Ids : \E k \in PrefixOf(Raw(i)) : \E m \in PrefixOf(Raw(j)) :
        /\ Prefixes[k][2] = CatPeople
        /\ C3_PersonName(i, k) # Str(Remainder(Raw(i), k))
        /\ Status(db, i) = Processed
        /\ Prefixes[m][2] # CatPeople
        /\ Status(db, j) = Processed

\* C4: a prefix followed by nothing or only whitespace gives needs_review
\* with the category of the prefix and the reason "empty after prefix", one
\* needs_review log event and no category record.
C4_EmptyAfterPrefix ==
    \A id \in Ids : \A k \in PrefixOf(Raw(id)) :
        (Remainder(Raw(id), k) = <<>> /\ Passed(id)) =>
            /\ Status(db, id) = NeedsReview
            /\ db.inbox[id].category = Str(Prefixes[k][2])
            /\ db.inbox[id].error = Str(EmptyAfterPrefix)
            /\ Cardinality(EventsOf(db, id)) = 1
            /\ \A e \in EventsOf(db, id) : db.log_events[e].event = NeedsReview
            /\ NumRecordsOf(db, id) = 0

\* both empty-remainder inputs (nothing, only whitespace) were handled
C4_Witness ==
    \E i, j \in Ids : \E k \in PrefixOf(Raw(i)) : \E m \in PrefixOf(Raw(j)) :
        /\ Len(Raw(i)) = Len(Prefixes[k][1])
        /\ Len(Raw(j)) > Len(Prefixes[m][1]) /\ Remainder(Raw(j), m) = <<>>
        /\ Status(db, i) = NeedsReview
        /\ Status(db, j) = NeedsReview

(* -------------------------------- C5 ----------------------------------- *)
\* the step parses an object for the current row: `result` holds it afterwards
Parses == InLoop /\ ~Truthy(Route.cat) /\ Truthy(result')
ParsedCategory == Get(result, "category", Str(Unknown))
\* the parsed confidence, a missing or falsy one counting as 0.0
ParsedConfidence == PyOr(Get(result, "confidence", Num(0)), Num(0))
C5_Gated ==
    \/ ~IsValidCategory(ParsedCategory)
    \/ ParsedConfidence.t = "num" /\ ParsedConfidence.v < CONF_THRESHOLD

\* a gated object sends its row to needs_review, category "unknown" or the
\* parsed one, and no record is made
C5_GateStep ==
    (Parses /\ C5_Gated') =>
        /\ Status(db', Row.id) = NeedsReview
        /\ db'.inbox[Row.id].category =
              (IF IsValidCategory(ParsedCategory') THEN ParsedCategory' ELSE Str(Unknown))
        /\ NumRecordsOf(db', Row.id) = 0

\* an item processed by the classifier has a valid category and a
\* confidence of at least the threshold
C5_ProcessedAboveThreshold ==
    \A id \in Ids :
        (Status(db, id) = Processed /\ db.inbox[id].model = Str(MODEL)) =>
            /\ IsValidCategory(db.inbox[id].category)
            /\ db.inbox[id].confidence.t = "num"
            /\ db.inbox[id].confidence.v >= CONF_THRESHOLD

\* C5: a parsed object with a category outside the four or a confidence
\* below 0.60 makes the item needs_review (category "unknown" if invalid,
\* else the parsed one) without record; hence every item processed through
\* the fallback path has a valid category and confidence >= 0.60.
C5_ConfidenceGating ==
    /\ [][C5_GateStep]_vars
    /\ []C5_ProcessedAboveThreshold

(* -------------------------------- C6 ----------------------------------- *)
\* the step makes the last attempt for the current row, and every attempt
\* of the row has failed
AllAttemptsFail ==
    /\ InLoop /\ ~Truthy(Route.cat)
    /\ attempt' = MAX_RETRIES + 1 /\ Len(tried') = MAX_RETRIES + 1

C6_TotalFailureStep ==
    AllAttemptsFail =>
        LET last == tried'[MAX_RETRIES + 1]
        IN  /\ last \notin {InvalidJson(a) : a \in 0..(MAX_RETRIES - 1)}
            /\ db'.inbox[Row.id] =
                  [db.inbox[Row.id] EXCEPT !.status = NeedsReview,
                                           !.model = Str(MODEL),
                                           !.error = Str(last)]
            /\ db'.log_events =
                  Append(db.log_events,
                         [event |-> NeedsReview, inbox_id |-> Row.id,
                          details |-> Str(Truncate(last, DETAILS_MAX))])
            /\ NumRecordsOf(db', Row.id) = 0

\* C6: when all MAX_RETRIES+1 classifier attempts of an item fail, the item
\* becomes needs_review with the model's identifier, its error is the failure
\* of the last attempt, one needs_review log event carries that error, and
\* the item has no category record.
C6_LastErrorKept == [][C6_TotalFailureStep]_vars

\* an item sent to review by a last attempt that exited non-zero, and one
\* by a last attempt whose output did not parse
C6_Witness ==
    \E i, j \in Ids :
        /\ Status(db, i) = NeedsReview /\ db.inbox[i].category = None
        /\ db.inbox[i].error = Str(InvalidJson(MAX_RETRIES))
        /\ Status(db, j) = NeedsReview /\ db.inbox[j].category = None
        /\ db.inbox[j].error = Str(OllamaFailed \o <<"o", "o", "m">>)

(* ----------------------------- C7 and C8 ------------------------------- *)
\* a run of main() has ended
RunEnded == pc = "idle" /\ exit # "none"

\* C7: an exception raised while one item is processed does not abort the
\* pass: every later item of the batch still reaches a terminal status.
C7_LaterItemsProcessed ==
    (RunEnded /\ exit = "exception") =>
        \A j \in (idx + 1)..Len(rows) : Terminal(db, rows[j].id)

\* C8: an item whose processing failed partway is left with a terminal
\* status and a log entry by the pass that picked it up.
C8_PickedItemSettled ==
    RunEnded =>
        \A j \in 1..Len(rows) :
            j <= idx => (Terminal(db, rows[j].id) /\ EventsOf(db, rows[j].id) # {})

(* -------------------------------- C9 ----------------------------------- *)
C9_OneEvent(id) ==
    IF Terminal(db, id)
    THEN /\ Cardinality(EventsOf(db, id)) = 1
         /\ \A e \in EventsOf(db, id) : db.log_events[e].event = Status(db, id)
    ELSE EventsOf(db, id) = {}

C9_AppendOnly ==
    /\ Len(db'.log_events) >= Len(db.log_events)
    /\ SubSeq(db'.log_events, 1, Len(db.log_events)) = db.log_events

\* C9: every item in a terminal status has exactly one log event with its
\* inbox_id, named after its status; an unprocessed item has none; the log
\* is only appended to.
C9_OneLogEventPerItem ==
    /\ [](\A id \in Ids : C9_OneEvent(id))
    /\ [][C9_AppendOnly]_vars

\* both kinds of event are in the log, one per item
C9_Witness ==
    /\ Len(db.log_events) = 2
    /\ \E i, j \in Ids :
          /\ Status(db, i) = Processed /\ Cardinality(EventsOf(db, i)) = 1
          /\ Status(db, j) = NeedsReview /\ Cardinality(EventsOf(db, j)) = 1

(* -------------------------------- C10 ---------------------------------- *)
C10_TerminalUntouched(id) ==
    Terminal(db, id) =>
        /\ db'.inbox[id] = db.inbox[id]
        /\ \A table \in Tables : RecordsOf(db', table, id) = RecordsOf(db, table, id)
        /\ EventsOf(db', id) = EventsOf(db, id)

\* C10: a pass never modifies an item already processed or needs_review and
\* creates no record and no log event for it; with no unprocessed item a
\* pass leaves the store unchanged.
C10_TerminalIdempotent ==
    [][/\ \A id \in Ids : C10_TerminalUntouched(id)
       /\ (\A id \in Ids : Terminal(db, id)) => db' = db]_vars

\* a second pass was run over a store with no unprocessed item, some of
\* them processed with their record
C10_Witness ==
    /\ passes = 2 /\ RunEnded /\ rows = <<>> /\ limit > 0
    /\ \A id \in Ids : Terminal(db, id)
    /\ \E id \in Ids : Status(db, id) = Processed

(* -------------------------------- C11 ---------------------------------- *)
\* pre_route of the row returned a category
Prefixed(raw) == Truthy(PreRouted[raw].cat)
\* position in rows of an inbox id, 0 when the run did not select it
PosOf(id) == IF \E j \in 1..Len(rows) : rows[j].id = id
             THEN CHOOSE j \in 1..Len(rows) : rows[j].id = id ELSE 0

\* the classifier was started only for selected rows that pre_route let through
C11_CallsOnlyUnrouted ==
    \A id \in Ids :
        calls[id] > 0 =>
            /\ PosOf(id) > 0
            /\ PreRouted[rows[PosOf(id)].raw_text] = [cat |-> None, clean |-> None]

\* a step on a row that pre_route matched starts no classifier
C11_PrefixStep ==
    (InLoop /\ Prefixed(Row.raw_text)) => (calls' = calls /\ running' = running)

\* C11: for an item the prefix router matches, the pass makes zero classifier
\* invocations, whether the item ends processed or needs_review; the
\* classifier is invoked only for items for which pre_route returned
\* (None, None).
C11_PrefixBeforeClassifier ==
    /\ [](C11_CallsOnlyUnrouted /\ running \in {0, 1})
    /\ [][C11_PrefixStep]_vars

\* a run that handled a prefixed row into needs_review and a prefixed row
\* into processed without a call
C11_Witness ==
    /\ pc = "idle" /\ exit = "ok" /\ Len(rows) = 2
    /\ \E i, j \in Ids :
          /\ Status(db, i) = NeedsReview /\ db.inbox[i].model = Str(PrefixTag)
          /\ Status(db, j) = Processed /\ db.inbox[j].model = Str(PrefixTag)
          /\ PosOf(i) > 0 /\ PosOf(j) > 0
          /\ calls[i] = 0 /\ calls[j] = 0

(* -------------------------------- C12 ---------------------------------- *)
UnprocessedIds(d) == {i \in Ids : Status(d, i) = Unprocessed}

\* main(limit) selects the `limit` lowest unprocessed ids, all of them when
\* there are fewer, in ascending order
C12_SelectStep ==
    pc = "idle" =>
        LET un == UnprocessedIds(db)
            n == IF Cardinality(un) < limit' THEN Cardinality(un) ELSE limit'
        IN  /\ Len(rows') = n
            /\ \A k \in 1..Len(rows') :
                  /\ rows'[k].id \in un
                  /\ rows'[k].raw_text = db.inbox[rows'[k].id].raw_text
                  /\ Cardinality({i \in un : i < rows'[k].id}) = k - 1
            /\ db' = db

\* the rows are handled one at a time in the order selected: a step works on
\* the current row only, and the step that commits it moves to the next
C12_OrderStep ==
    pc # "idle" =>
        /\ rows' = rows
        /\ idx' \in {idx, idx + 1}
        /\ \A i \in Ids :
              (db'.inbox[i] # db.inbox[i] \/ calls'[i] # calls[i]) => (InLoop /\ i = Row.id)
        /\ db' # db => idx' = idx + 1
        /\ running = 1 => (db' = db \/ running' = 0)

\* C12: a pass with batch limit L selects the L lowest-id unprocessed items
\* (all when fewer exist), handles them one at a time in ascending id order,
\* each commit before any work on the next item, never has two classifier
\* invocations in progress, and leaves items outside the selection unchanged.
C12_BatchInOrder ==
    /\ [][C12_SelectStep /\ C12_OrderStep]_vars
    /\ [](/\ running \in {0, 1}
          /\ \A j, k \in 1..Len(rows) : j < k => rows[j].id < rows[k].id)

\* the same with the selection step looked at for limits >= 0 only
C12_NonNegativeLimit ==
    /\ [][(limit' >= 0 => C12_SelectStep) /\ C12_OrderStep]_vars
    /\ [](/\ running \in {0, 1}
          /\ \A j, k \in 1..Len(rows) : j < k => rows[j].id < rows[k].id)

(* -------------------------------- C13 ---------------------------------- *)
\* C13: every soft failure (missing required field, empty after prefix, low
\* confidence, invalid category, unparsable output, failed classifier
\* process) leaves the item needs_review with a non-empty reason in its error
\* column; no item is needs_review with an empty reason.
C13_ReasonStored ==
    \A id \in Ids :
        Status(db, id) = NeedsReview =>
            /\ db.inbox[id].error.t = "str"
            /\ strip(db.inbox[id].error.v) # <<>>

(* -------------------------------- C14 ---------------------------------- *)
\* the row is people-prefixed with a non-empty remainder
PeoplePrefixed(raw) ==
    PreRouted[raw].cat = Str(CatPeople) /\ Truthy(PreRouted[raw].clean)
\* the trimmed remainder, lower-cased
RemainderKey(raw) == lower(strip(PreRouted[raw].clean.v))

C14_Record(id, name) ==
    /\ Cardinality(RecordsOf(db, "people", id)) = 1
    /\ \A k \in RecordsOf(db, "people", id) :
          /\ db.people[k].name = name
          /\ db.people[k].follow_up = Str(Raw(id))

\* C14: for a people-prefixed item whose trimmed remainder is, whatever its
\* case, a key of the alias table, the people record created has name = the
\* alias value and follow_up = the full raw text, untrimmed, prefix included;
\* a kinship remainder without alias entry gives the term capitalized.
C14_AliasAndFollowUp ==
    \A id \in Ids :
        (Passed(id) /\ PeoplePrefixed(Raw(id))) =>
            LET key == RemainderKey(Raw(id))
            IN  IF key \in DOMAIN ALIASES
                THEN IF Truthy(ALIASES[key])
                     THEN C14_Record(id, ALIASES[key])
                     ELSE RecordsOf(db, "people", id) = {}
                ELSE InSeq(key, KinTerms) => C14_Record(id, Str(title(key)))

\* a record made under the alias value for a raw text that differs from its
\* trimmed form
C14_Witness ==
    \E id \in Ids :
        /\ PeoplePrefixed(Raw(id))
        /\ RemainderKey(Raw(id)) \in DOMAIN ALIASES
        /\ Raw(id) # strip(Raw(id))
        /\ Status(db, id) = Processed
        /\ \E k \in RecordsOf(db, "people", id) :
              /\ db.people[k].name = Str(<<"J", "a", "n", "e", " ", "D", "o", "e">>)
              /\ db.people[k].follow_up = Str(Raw(id))

\* a record made under the capitalized kinship term, no alias file present
C14_WitnessKin ==
    \E id \in Ids :
        /\ PeoplePrefixed(Raw(id)) /\ aliasFile = NoFile
        /\ \E k \in RecordsOf(db, "people", id) :
              db.people[k].name = Str(<<"M", "o", "m">>)

(* -------------------------------- C15 ---------------------------------- *)
\* the attempt the step makes gets an object from the parser: it is the
\* result, whatever its content, and the retry loop is left
C15_FirstObjectStep ==
    (pc = "call" /\ parsed'.t = "dict") =>
        /\ result' = parsed'
        /\ pc' # "retry"
        /\ calls' = calls

\* C15: the classifier is invoked at most MAX_RETRIES+1 times per item; an
\* attempt succeeds as soon as the parser yields an object, whatever its
\* content (no keys, poor category or confidence); no invocation follows the
\* first success, and validation never triggers another attempt.
C15_StopsAtFirstObject ==
    /\ [](\A id \in Ids : calls[id] <= MAX_RETRIES + 1)
    /\ [][C15_FirstObjectStep]_vars

\* the same, an object with no keys left aside
C15_StopsAtFirstNonEmptyObject ==
    /\ [](\A id \in Ids : calls[id] <= MAX_RETRIES + 1)
    /\ [][parsed' # EmptyDict => C15_FirstObjectStep]_vars

(* -------------------------------- C16 ---------------------------------- *)
\* a value that is absent, or empty after trimming
Blank(v) == v.t = "none" \/ (v.t = "str" /\ strip(v.v) = <<>>)
\* fields.<key> of a parsed object, None when absent
FieldOf(obj, key) ==
    LET f == Get(obj, "fields", None)
    IN  IF f.t = "dict" THEN Get(f, key, None) ELSE None

\* the required field of a parsed object of category cat, for the raw text;
\* "else" is read as taken when the first value is absent or empty, either
\* as it stands (trimmed = FALSE) or after trimming (trimmed = TRUE)
C16_Resolved(cat, obj, raw, trimmed) ==
    CASE cat = CatPeople ->
            IF (IF trimmed THEN Blank(FieldOf(obj, "name")) ELSE ~Truthy(FieldOf(obj, "name")))
            THEN infer_person_name(ALIASES, raw)
            ELSE FieldOf(obj, "name")
      [] cat = CatIdeas ->
            IF (IF trimmed THEN Blank(FieldOf(obj, "title")) ELSE ~Truthy(FieldOf(obj, "title")))
            THEN Get(obj, "title", None)
            ELSE FieldOf(obj, "title")
      [] cat = CatProjects -> FieldOf(obj, "name")
      [] cat = CatAdmin -> FieldOf(obj, "task")

C16_Reason(cat) ==
    CASE cat = CatPeople -> MissingPersonName
      [] cat = CatIdeas -> MissingIdeaTitle
      [] cat = CatProjects -> MissingProjectName
      [] cat = CatAdmin -> MissingAdminTask

\* the step parses an object with a valid category and a confidence of at
\* least the threshold
C16_Accepted ==
    /\ Parses
    /\ IsValidCategory(ParsedCategory')
    /\ float(ParsedConfidence').ok
    /\ float(ParsedConfidence').val.t = "num"
    /\ float(ParsedConfidence').val.v >= CONF_THRESHOLD

C16_OutcomeOf(trimmed) ==
    LET cat == ParsedCategory'.v
        conf == float(ParsedConfidence').val
        item == db'.inbox[Row.id]
    IN  IF Blank(C16_Resolved(cat, result', Row.raw_text, trimmed))
        THEN /\ item.status = NeedsReview
             /\ item.category = Str(cat)
             /\ item.confidence = conf
             /\ item.model = Str(MODEL)
             /\ item.error = Str(C16_Reason(cat))
             /\ Len(db'.log_events) = Len(db.log_events) + 1
             /\ EventsOf(db', Row.id) = {Len(db'.log_events)}
             /\ db'.log_events[Len(db'.log_events)].event = NeedsReview
             /\ NumRecordsOf(db', Row.id) = 0
        ELSE /\ item.status = Processed
             /\ item.category = Str(cat)
             /\ item.confidence = conf

C16_Outcome == C16_OutcomeOf(TRUE) \/ C16_OutcomeOf(FALSE)

\* C16: for a parsed classification with valid category and confidence >=
\* 0.60 the required field is fields.name else the inferred name (people),
\* fields.title else the top-level title (ideas), fields.name (projects),
\* fields.task (admin); when it is absent or empty after trimming the item is
\* needs_review with the category, the parsed confidence, the model and the
\* category's reason, one log event and no record; otherwise it is processed
\* with the parsed category and confidence.
C16_RequiredFieldResolution == [][C16_Accepted => C16_Outcome]_vars

\* the same over the steps that raise no exception, whitespace-only alias
\* values left aside
C16_CommittedSteps ==
    [][(C16_Accepted /\ exit' # "exception"
        /\ \A k \in DOMAIN ALIASES : ~(Truthy(ALIASES[k]) /\ Blank(ALIASES[k])))
       => C16_Outcome]_vars

(* -------------------------------- C17 ---------------------------------- *)
\* the status the record of a classification gets: the classifier's when it
\* is in the enum, else the default
C17_Status(obj, enum, default) ==
    LET st == FieldOf(obj, "status")
    IN  IF st.t = "str" /\ st.v \in enum THEN st ELSE Str(default)

\* the step accepts a classification for `table` whose required field is a
\* non-empty string
C17_Insertable(cat, key) ==
    /\ C16_Accepted
    /\ ParsedCategory' = Str(cat)
    /\ FieldOf(result', key).t = "str"
    /\ ~Blank(FieldOf(result', key))

C17_Inserted(table, enum, default) ==
    /\ Status(db', Row.id) = Processed
    /\ Cardinality(RecordsOf(db', table, Row.id)) = 1
    /\ \A k \in RecordsOf(db', table, Row.id) :
          db'[table][k].status = C17_Status(result', enum, default)

C17_StatusStep ==
    /\ C17_Insertable(CatProjects, "name") => C17_Inserted("projects", ProjectStatuses, Active)
    /\ C17_Insertable(CatAdmin, "task") => C17_Inserted("admin", AdminStatuses, Open)

C17_StoredInEnum ==
    /\ \A k \in 1..Len(db.projects) :
          db.projects[k].status.t = "str" /\ db.projects[k].status.v \in ProjectStatuses
    /\ \A k \in 1..Len(db.admin) :
          db.admin[k].status.t = "str" /\ db.admin[k].status.v \in AdminStatuses

\* C17: for an accepted projects classification with a name the record's
\* status is the classifier's when in {active, waiting, blocked, someday,
\* done} and "active" when missing or anything else; for admin with a task,
\* the classifier's when in {open, done} and "open" otherwise; a missing or
\* invalid status never sends the item to needs_review, and every stored
\* projects/admin status lies in its enum.
C17_StatusDefaults ==
    /\ [][C17_StatusStep]_vars
    /\ []C17_StoredInEnum

\* the same over the steps that raise no exception
C17_CommittedSteps ==
    /\ [][exit' # "exception" => C17_StatusStep]_vars
    /\ []C17_StoredInEnum

(* -------------------------------- C18 ---------------------------------- *)
\* parse(text) as the claim has it: the whole trimmed text when it parses to
\* an object; the span from the first { to the last } only when the whole
\* text does not parse; none when the value parsed first is not an object
C18_Parse(text) ==
    LET s == strip_lx(text)
        whole == json_loads(s)
        opens == {i \in 1..Len(s) : s[i].lx = "{"}
        closes == {i \in 1..Len(s) : s[i].lx = "}"}
        lo == CHOOSE i \in opens : \A j \in opens : i <= j
        hi == CHOOSE i \in closes : \A j \in closes : j <= i
    IN  IF whole.ok THEN (IF whole.val.t = "dict" THEN whole.val ELSE None)
        ELSE IF opens = {} \/ closes = {} \/ hi < lo THEN None
        ELSE LET blob == json_loads(SubSeq(s, lo, hi))
             IN  IF blob.ok /\ blob.val.t = "dict" THEN blob.val ELSE None

\* extract_json on the outputs of the classifier runs agrees with the claim
\* wherever the claim returns an object
C18_ObjectsAgree ==
    \A r \in 1..Len(Runs) :
        LET out == Observed[r].call.out
        IN  (~Observed[r].call.raised /\ C18_Parse(out) # None) =>
                Observed[r].parsed = C18_Parse(out)

\* C18: parse(text) returns an object or none: the whole trimmed text when it
\* parses to an object, the span from the first { to the last } only when the
\* whole text does not parse, and none when both fail or when the value
\* parsed first is not an object (array, number, string, boolean, null).
C18_ObjectOrNone == parsed.t \in {"dict", "none"}

\* what extract_json returns that differs from the claim is never an object
C18_OnlyNonObjectsDiffer ==
    /\ C18_ObjectsAgree
    /\ parsed.t \in {"dict", "none", "list", "num"}

(* -------------------------------- C19 ---------------------------------- *)
\* the pipeline run again and again with a positive batch limit (passes
\* counts the runs up to MaxPasses and stays there)
Restart ==
    /\ passes' = (IF passes < MaxPasses THEN passes + 1 ELSE passes)
    /\ \E lim \in 1..MaxLimit : Select(lim)

\* the raw texts and the classifier runs of the repeated runs: an
\* unprefixed text, a prefixed one and an empty prefix; a failed process,
\* prose, a low-confidence object, an accepted object, and an object whose
\* confidence is not a number
LiveTexts ==
    { <<"b", "u", "y", " ", "m", "i", "l", "k">>,
      <<"i", "d", "e", "a", ":", "i">>,
      <<"a", "d", "m", "i", "n", ":">> }
LiveRuns ==
    {r \in AllRuns :
        Runs[r] \in
            { Exit1(<<" ", "o", "o", "m", " ">>),
              Exit0(<<Word, Word>>),
              Exit0(Obj(<<Cat(CatAdmin), Conf(40), Fields([task |-> Str(<<"t">>)])>>)),
              Exit0(Obj(<<Cat(CatAdmin), Conf(100), Fields([task |-> Str(<<"t">>)])>>)),
              Exit0(Obj(<<Cat(Unknown), Member("confidence", Str(<<"h", "i", "g", "h">>))>>)) }}

InitLive == InitWith(LiveTexts, {NoFile})

AttemptFailsLive == AttemptFailsOn(LiveRuns)
AttemptExhaustsLive == AttemptExhaustsOn(LiveRuns)
AttemptParsesLive == AttemptParsesOn(LiveRuns)

NextLive ==
    Restart \/ PrefixItem \/ Invoke \/ AttemptFailsLive \/ AttemptExhaustsLive
    \/ AttemptParsesLive \/ Return

\* every classifier call returns and every run of main() goes on to its end;
\* a new run is started whenever none is in progress
SpecLive == InitLive /\ [][NextLive]_vars /\ WF_vars(NextLive)

\* C19: run repeatedly with a positive batch limit, every classifier call
\* returning, the pipeline brings every unprocessed item to a terminal
\* status: no item stays unprocessed forever or keeps the items behind it
\* from being selected.
C19_EveryItemSettles == <>(\A id \in Ids : Terminal(db, id))

\* every item settles unless runs keep ending by an exception
C19_SettlesUnlessRaising ==
    (<>(\A id \in Ids : Terminal(db, id))) \/ []<>(exit = "exception")
====
